---------------------------- MODULE Spec2Model ----------------------------
(***************************************************************************)
(* A model of the Aspix image-to-glyph converter (src/src/converter.rs).   *)
(*                                                                         *)
(* The converter computes in IEEE-754 single precision (f32).  The model   *)
(* carries every f32 value as a record [neg, m, e] standing for            *)
(* (-1)^neg * m * 2^e with 2^23 <= m < 2^24 (or m = 0 for zero), and       *)
(* rounds every arithmetic result to nearest, ties to even, exactly as the *)
(* hardware does.  Subnormals, infinities and NaN are outside the range of *)
(* the values the converter handles here and are not represented.          *)
(***************************************************************************)
EXTENDS Integers, Sequences, FiniteSets, TLC

VARIABLES config, input, stage, processed, cells, output, result, trace

vars == <<config, input, stage, processed, cells, output, result, trace>>

---------------------------------------------------------------------------
(* f32 arithmetic                                                          *)

\* The f32 values: (-1)^neg * m * 2^e.
F32 == [neg : BOOLEAN, m : Nat, e : Int]

F32Zero == [neg |-> FALSE, m |-> 0, e |-> 0]

\* Number of binary digits of n >= 0 (n < 2^31).
BitLen[n \in Nat] == IF n = 0 THEN 0
             ELSE IF n >= 65536 THEN 16 + BitLen[n \div 65536]
             ELSE IF n >= 256 THEN 8 + BitLen[n \div 256]
             ELSE IF n >= 16 THEN 4 + BitLen[n \div 16]
             ELSE 1 + BitLen[n \div 2]

\* Round to nearest, ties to even: whether the quotient is rounded up.
F32RoundsUp(rem, half, sticky, odd) ==
    rem > half \/ (rem = half /\ (sticky \/ odd))

\* The f32 of mantissa q (or q + 1), renormalized when it reaches 2^24.
F32Pack[neg \in BOOLEAN, q \in Nat, up \in BOOLEAN, e \in Int] ==
    IF up /\ q + 1 = 16777216 THEN [neg |-> neg, m |-> 8388608, e |-> e + 1]
    ELSE [neg |-> neg, m |-> IF up THEN q + 1 ELSE q, e |-> e]

\* F32Round for an M of 24 + k binary digits.
F32RoundK[neg \in BOOLEAN, M \in Nat, e \in Int, sticky \in BOOLEAN, k \in Int] ==
    IF k <= 0 THEN [neg |-> neg, m |-> M * 2^(0 - k), e |-> e + k]
    ELSE F32Pack[neg, M \div 2^k,
                 F32RoundsUp(M % 2^k, 2^(k - 1), sticky, (M \div 2^k) % 2 = 1),
                 e + k]

\* Round (M + f) * 2^e to f32, where 0 <= M < 2^31 and sticky says that a
\* fraction 0 < f < 1 lies below M's last bit (M then has 25 bits or more).
F32Round[neg \in BOOLEAN, M \in Nat, e \in Int, sticky \in BOOLEAN] ==
    IF M = 0 THEN F32Zero ELSE F32RoundK[neg, M, e, sticky, BitLen[M] - 24]

\* `n as f32` for an integer 0 <= n < 2^31.
F32FromInt[n \in Nat] == F32Round[FALSE, n, 0, FALSE]

F32One == [neg |-> FALSE, m |-> 8388608, e |-> -23]

F32Neg[a \in F32] == IF a.m = 0 THEN a ELSE [a EXCEPT !.neg = ~a.neg]

\* |a| < |b|
F32MagLt[a \in F32, b \in F32] ==
    IF a.m = 0 THEN b.m # 0
    ELSE IF b.m = 0 THEN FALSE
    ELSE a.e < b.e \/ (a.e = b.e /\ a.m < b.m)

\* a < b
F32Lt[a \in F32, b \in F32] ==
    IF a.neg /\ ~b.neg THEN TRUE
    ELSE IF ~a.neg /\ b.neg THEN FALSE
    ELSE IF a.neg THEN F32MagLt[b, a]
    ELSE F32MagLt[a, b]

\* A + Bq (or A - Bq) with three guard bits, Bq being B shifted right by d
\* binary digits and sticky saying that digits of B were shifted out.
F32Aligned[neg \in BOOLEAN, A \in Nat, Bq \in Nat, sticky \in BOOLEAN, e \in Int, subtract \in BOOLEAN] ==
    F32Round[neg,
             IF subtract THEN (IF sticky THEN A - Bq - 1 ELSE A - Bq) ELSE A + Bq,
             e, sticky]

\* hi + lo for |hi| >= |lo|, both nonzero; d is the exponent difference.
F32AddOrdered[hi \in F32, lo \in F32, d \in Nat] ==
    F32Aligned[hi.neg, hi.m * 8,
               IF d >= 27 THEN 0 ELSE (lo.m * 8) \div 2^d,
               IF d >= 27 THEN TRUE ELSE (lo.m * 8) % 2^d # 0,
               hi.e - 3, hi.neg # lo.neg]

\* a + b
F32Add[a \in F32, b \in F32] ==
    IF a.m = 0 THEN b
    ELSE IF b.m = 0 THEN a
    ELSE IF F32MagLt[a, b] THEN F32AddOrdered[b, a, b.e - a.e]
    ELSE F32AddOrdered[a, b, a.e - b.e]

\* a - b
F32Sub[a \in F32, b \in F32] == F32Add[a, F32Neg[b]]

\* The 48-bit product hi * 2^24 + lo rounded to f32.
F32MulPack[neg \in BOOLEAN, hi \in Nat, lo \in Nat, e \in Int] ==
    F32Round[neg, hi * 4 + (lo \div 4194304), e + 22, lo % 4194304 # 0]

\* a * b, the mantissas multiplied in 12-bit limbs.
F32Mul[a \in F32, b \in F32] ==
    IF a.m = 0 \/ b.m = 0 THEN F32Zero
    ELSE LET a1 == a.m \div 4096
             a0 == a.m % 4096
             b1 == b.m \div 4096
             b0 == b.m % 4096
             p0 == a0 * b0
             p1 == a1 * b0 + a0 * b1 + (p0 \div 4096)
         IN F32MulPack[a.neg # b.neg, a1 * b1 + (p1 \div 4096),
                       (p1 % 4096) * 4096 + (p0 % 4096), a.e + b.e]

\* Long division in base 128: n more digits of a quotient q with remainder r.
F32DivDigits[neg \in BOOLEAN, q \in Nat, r \in Nat, den \in Nat, e \in Int, n \in Nat] ==
    IF n = 0 THEN F32Round[neg, q, e, r # 0]
    ELSE F32DivDigits[neg, q * 128 + ((r * 128) \div den), (r * 128) % den,
                      den, e, n - 1]

\* a / b, b nonzero
F32Div[a \in F32, b \in F32] ==
    IF a.m = 0 THEN F32Zero
    ELSE F32DivDigits[a.neg # b.neg, a.m \div b.m, a.m % b.m, b.m,
                      a.e - b.e - 28, 4]

\* `.clamp(0.0, 1.0)`
F32Clamp01[a \in F32] ==
    IF a.neg THEN F32Zero
    ELSE IF F32Lt[F32One, a] THEN F32One
    ELSE a

\* `a as u8` / `as u32` / `as usize`: truncation toward zero, saturating at
\* 0 and at max.
F32ToUInt[a \in F32, max \in Nat] ==
    IF a.m = 0 \/ a.neg THEN 0
    ELSE IF a.e >= 0 THEN max
    ELSE IF a.e <= -24 THEN 0
    ELSE LET t == a.m \div 2^(0 - a.e) IN IF t > max THEN max ELSE t

\* The f32 nearest to the decimal literal num/den.
F32Lit[num \in Nat, den \in Nat] == F32Div[F32FromInt[num], F32FromInt[den]]

\* The literals 0.5 and 255.0.
F32Half == F32Lit[1, 2]

F32U8Max == F32FromInt[255]


---------------------------------------------------------------------------
(* Alphabets                                                               *)

ASCII_CHARS == <<"@", "%", "#", "*", "+", "=", "-", ":", ".", " ">>

\* (the grave accent is written by its code point)
DETAILED_ASCII_CHARS ==
    << "$", "@", "B", "%", "8", "&", "W", "M", "#", "*",
       "o", "a", "h", "k", "b", "d", "p", "q", "w", "m",
       "Z", "O", "0", "Q", "L", "C", "J", "U", "Y", "X",
       "z", "c", "v", "u", "n", "x", "r", "j", "f", "t",
       "/", "\\", "|", "(", ")", "1", "{", "}", "[", "]",
       "?", "-", "_", "+", "~", "<", ">", "i", "!", "l",
       "I", ";", ":", ",", "\"", "^", "U+0060", "'", ".", " " >>

\* A block-density alphabet of 21 entries: HIGH_DENSITY_CHARS without its "."
\* entry.
HighDensityOf21 ==
    << "U+2588", "U+2593", "U+2592", "U+2591", "U+2584", "U+2580", "U+25A0",
       "U+25AA", "U+25CF", "U+25C6", "U+25C9", "U+25CD", "U+25CE", "U+25CB",
       "U+2609", "U+25CC", "U+25CA", "U+2666", "U+2662", "U+2022", " " >>

\* The non-ASCII glyphs are written by their code points.
HIGH_DENSITY_CHARS ==
    << "U+2588", "U+2593", "U+2592", "U+2591", "U+2584", "U+2580", "U+25A0",
       "U+25AA", "U+25CF", "U+25C6", "U+25C9", "U+25CD", "U+25CE", "U+25CB",
       "U+2609", "U+25CC", "U+25CA", "U+2666", "U+2662", "U+2022", ".", " " >>

\* The byte-string literal the colored path measures the index range on
\* when only use_high_density is set.
ColoredHighDensityLiteral ==
    <<"@", "%", "#", "*", "+", "=", "-", ":", ".", " ">>

---------------------------------------------------------------------------
(* Pixel buffers                                                           *)

Coords(w, h) == (0 .. w - 1) \X (0 .. h - 1)

EmptyBuffer == [w |-> 0, h |-> 0, px |-> << >>]

\* Channel k (1 = R, 2 = G, 3 = B, 4 = A) of the decoded image at (x, y), as
\* the resampling collaborator delivers it: squares of tile x tile pixels of
\* one color, the color stepping by dx and dy from square to square.
SourcePixel(inp, x, y) ==
    [k \in 1 .. 4 |->
        IF k = 4 THEN inp.base[4]
        ELSE (inp.base[k] + inp.dx * (x \div inp.tile)
                          + inp.dy * (y \div inp.tile)) % 256]

\* `(self.config.width as f32 * self.config.scale) as u32`
TargetWidth(cfg) == F32ToUInt[F32Mul[F32FromInt[cfg.width], cfg.scale], 2147483647]

TargetHeight(cfg) == F32ToUInt[F32Mul[F32FromInt[cfg.height], cfg.scale], 2147483647]

\* img.resize_exact(target_width, target_height, Lanczos3): a buffer of
\* exactly the target dimensions.
ResizeExact(inp, tw, th) ==
    [w |-> tw, h |-> th,
     px |-> [c \in Coords(tw, th) |-> SourcePixel(inp, c[1], c[2])]]

\* `((color - 0.5) * contrast + 0.5).clamp(0.0, 1.0)`
AdjustContrast(color, contrast) ==
    F32Clamp01[F32Add[F32Mul[F32Sub[color, F32Half], contrast], F32Half]]

\* `(color * brightness).clamp(0.0, 1.0)`
AdjustBrightness(color, brightness) == F32Clamp01[F32Mul[color, brightness]]

\* One channel through contrast, brightness and back to 8 bits:
\* `pixel[c] = (color * 255.0) as u8`.
AdjustChannel(ch, contrast, brightness) ==
    F32ToUInt[F32Mul[AdjustBrightness(AdjustContrast(
                         F32Div[F32FromInt[ch], F32U8Max], contrast),
                         brightness),
                     F32U8Max], 255]

\* apply_image_adjustments: channels 0..2 adjusted, alpha kept.
ApplyImageAdjustments(cfg, buf) ==
    [buf EXCEPT !.px =
        [c \in DOMAIN buf.px |->
            [k \in 1 .. 4 |-> IF k = 4 THEN buf.px[c][4]
                              ELSE AdjustChannel(buf.px[c][k], cfg.contrast,
                                                 cfg.brightness)]]]

\* DynamicImage::into_luma8 on an RGBA buffer (integer Rec. 709 weights).
Luma(p) == (2126 * p[1] + 7152 * p[2] + 722 * p[3]) \div 10000

IntoLuma8(buf) ==
    [buf EXCEPT !.px = [c \in DOMAIN buf.px |-> <<Luma(buf.px[c])>>]]

---------------------------------------------------------------------------
(* Block sampling and glyph selection                                      *)

\* `self.config.scale as u32`
ScaleFactor(cfg) == F32ToUInt[cfg.scale, 2147483647]

\* The in-bounds pixels the dy/dx loops of cell (x, y) visit, in loop order.
BlockCoords(x, y, sf, w, h) ==
    LET all == [i \in 1 .. sf * sf |->
                   <<x * sf + ((i - 1) % sf), y * sf + ((i - 1) \div sf)>>]
    IN SelectSeq(all, LAMBDA c : c[1] < w /\ c[2] < h)

\* total += s[1]; total += s[2]; ... starting from 0.0
RECURSIVE F32SumTo(_, _)
F32SumTo(s, n) == IF n = 0 THEN F32Zero ELSE F32Add[F32SumTo(s, n - 1), s[n]]

\* `pixel[c] as f32 / 255.0`
Normalized(ch) == F32Div[F32FromInt[ch], F32U8Max]

\* A brightness that ignores invert.
GrayBrightnessPlain(l, invert) == Normalized(l)

\* Per-pixel brightness of the grayscale path, invert applied per pixel.
GrayBrightness(l, invert) ==
    IF invert THEN F32Sub[F32One, Normalized(l)] ELSE Normalized(l)

\* An index rounded to nearest instead of cut off.
GlyphIndexRounded(avg, len) ==
    F32ToUInt[F32Add[F32Mul[avg, F32FromInt[len - 1]], F32Half], 2147483647]

\* An index scaled by len instead of len - 1: brightness 1.0 overruns the
\* alphabet.
GlyphIndexOverrun(avg, len) == F32ToUInt[F32Mul[avg, F32FromInt[len]], 2147483647]

\* `(avg_brightness * (len - 1) as f32) as usize`
GlyphIndex(avg, len) == F32ToUInt[F32Mul[avg, F32FromInt[len - 1]], 2147483647]

\* The alphabet of the grayscale path.
GrayChars(cfg) ==
    IF cfg.use_high_density THEN HIGH_DENSITY_CHARS
    ELSE IF cfg.use_detailed_chars THEN DETAILED_ASCII_CHARS
    ELSE ASCII_CHARS

\* `if count > 0.0 { total / count } else { 0.0 }` over the n brightness
\* values bs of a block.
BlockAverage(bs, n) ==
    IF F32Lt[F32Zero, F32FromInt[n]] THEN F32Div[F32SumTo(bs, n), F32FromInt[n]]
    ELSE F32Zero

GrayCellOf(cfg, block, avg) ==
    [block |-> block, count |-> Len(block), avg |-> avg,
     index |-> GlyphIndex(avg, Len(GrayChars(cfg)))]

GrayCellOn(cfg, buf, block) ==
    GrayCellOf(cfg, block,
               BlockAverage([i \in 1 .. Len(block) |->
                                GrayBrightness(buf.px[block[i]][1], cfg.invert)],
                            Len(block)))

\* One cell of image_to_ascii.
GrayCell(cfg, buf, x, y) ==
    GrayCellOn(cfg, buf, BlockCoords(x, y, ScaleFactor(cfg), buf.w, buf.h))

\* The alphabet the colored path measures the index range on.
ColoredChars(cfg) ==
    IF cfg.use_detailed_chars THEN DETAILED_ASCII_CHARS
    ELSE IF cfg.use_high_density THEN ColoredHighDensityLiteral
    ELSE ASCII_CHARS

\* The literals 0.3, 0.59 and 0.11.
LumaWeightR == F32Lit[3, 10]

LumaWeightG == F32Lit[59, 100]

LumaWeightB == F32Lit[11, 100]

\* `r * 0.3 + g * 0.59 + b * 0.11`
PixelLuma(p) ==
    F32Add[F32Add[F32Mul[Normalized(p[1]), LumaWeightR],
                  F32Mul[Normalized(p[2]), LumaWeightG]],
           F32Mul[Normalized(p[3]), LumaWeightB]]

\* A blend without its neutral-gray term.
SaturatedChannelNoGray(avg, sat) ==
    F32ToUInt[F32Mul[F32Mul[avg, sat], F32U8Max], 255]

\* `((avg * sat + (1.0 - sat) * 0.5) * 255.0) as u8`
SaturatedChannel(avg, sat) ==
    F32ToUInt[F32Mul[F32Add[F32Mul[avg, sat],
                            F32Mul[F32Sub[F32One, sat], F32Half]],
                     F32U8Max], 255]

\* `if invert { 1.0 - total_brightness / count } else { ... }`
ColoredBrightness(mean, invert) == IF invert THEN F32Sub[F32One, mean] ELSE mean

ColoredCellOf(cfg, block, avg, rgb) ==
    [block |-> block, count |-> Len(block), avg |-> avg,
     index |-> GlyphIndex(avg, Len(ColoredChars(cfg))),
     r |-> rgb[1], g |-> rgb[2], b |-> rgb[3]]

\* The block's channel means through the saturation blend.
BlockColor(cfg, buf, block) ==
    [k \in 1 .. 3 |->
        SaturatedChannel(
            BlockAverage([i \in 1 .. Len(block) |-> Normalized(buf.px[block[i]][k])],
                         Len(block)),
            cfg.color_saturation)]

ColoredCellOn(cfg, buf, block) ==
    ColoredCellOf(cfg, block,
                  ColoredBrightness(
                      BlockAverage([i \in 1 .. Len(block) |->
                                       PixelLuma(buf.px[block[i]])], Len(block)),
                      cfg.invert),
                  BlockColor(cfg, buf, block))

\* One cell of image_to_colored_ascii (its span is emitted when count > 0).
ColoredCell(cfg, buf, x, y) ==
    ColoredCellOn(cfg, buf, BlockCoords(x, y, ScaleFactor(cfg), buf.w, buf.h))

\* The glyph the colored path emits for a char_index.
ColoredCharacter(cfg, char_index) ==
    IF cfg.use_high_density /\ char_index < Len(HIGH_DENSITY_CHARS)
    THEN HIGH_DENSITY_CHARS[char_index + 1]
    ELSE ColoredChars(cfg)[char_index + 1]

\* Whether the colored path indexes its alphabet out of range for a cell.
ColoredOutOfRange(cfg, cell) ==
    /\ cell.count > 0
    /\ ~(cfg.use_high_density /\ cell.index < Len(HIGH_DENSITY_CHARS))
    /\ cell.index >= Len(ColoredChars(cfg))

---------------------------------------------------------------------------
(* Output assembly                                                         *)

Newline == [kind |-> "newline"]

Glyph(ch) == [kind |-> "glyph", ch |-> ch]

Span(r, g, b, ch) == [kind |-> "span", r |-> r, g |-> g, b |-> b, ch |-> ch]

HtmlHeader == [kind |-> "html_header"]

LineBreak == [kind |-> "br"]

HtmlFooter == [kind |-> "html_footer"]

RECURSIVE ConcatRows(_, _)
ConcatRows(rows, n) ==
    IF n = 0 THEN << >> ELSE ConcatRows(rows, n - 1) \o rows[n - 1]

\* A grayscale assembly that walks the grid column by column.
GrayOutputColumnMajor(cfg, grid) ==
    LET chars == GrayChars(cfg)
        cols  == [x \in 0 .. cfg.width - 1 |->
                     [y \in 1 .. cfg.height |->
                         Glyph(chars[grid[<<x, y - 1>>].index + 1])]
                     \o <<Newline>>]
    IN ConcatRows(cols, cfg.width)

\* image_to_ascii: width glyphs and a newline per row.
GrayOutput(cfg, grid) ==
    LET chars == GrayChars(cfg)
        rows  == [y \in 0 .. cfg.height - 1 |->
                     [x \in 1 .. cfg.width |->
                         Glyph(chars[grid[<<x - 1, y>>].index + 1])]
                     \o <<Newline>>]
    IN ConcatRows(rows, cfg.height)

\* image_to_colored_ascii: a span per cell with count > 0 and a <br/> per
\* row, inside the HTML frame.
ColoredOutput(cfg, grid) ==
    LET all(y) == [x \in 1 .. cfg.width |-> <<x - 1, y>>]
        rows == [y \in 0 .. cfg.height - 1 |->
                    LET kept == SelectSeq(all(y), LAMBDA c : grid[c].count > 0)
                    IN [i \in 1 .. Len(kept) |->
                           Span(grid[kept[i]].r, grid[kept[i]].g, grid[kept[i]].b,
                                ColoredCharacter(cfg, grid[kept[i]].index))]
                       \o <<LineBreak>>]
    IN <<HtmlHeader>> \o ConcatRows(rows, cfg.height) \o <<HtmlFooter>>

---------------------------------------------------------------------------
(* The conversion pipeline                                                 *)

InitOver(cfgs, inputs) ==
    /\ config \in cfgs
    /\ input \in inputs
    /\ stage = "Start"
    /\ processed = EmptyBuffer
    /\ cells = << >>
    /\ output = << >>
    /\ result = "None"
    /\ trace = << >>

\* convert / convert_from_bytes: decode, `?` returning the error.
Decode ==
    /\ stage = "Start"
    /\ trace' = Append(trace, "Decode")
    /\ stage' = IF input.valid THEN "Decoded" ELSE "Failed"
    /\ result' = IF input.valid THEN "None" ELSE "Err"
    /\ UNCHANGED <<config, input, processed, cells, output>>

\* process_image: resize_exact to the target size.
Resize ==
    /\ stage = "Decoded"
    /\ processed' = ResizeExact(input, TargetWidth(config), TargetHeight(config))
    /\ stage' = "Resized"
    /\ trace' = Append(trace, "Resize")
    /\ UNCHANGED <<config, input, cells, output, result>>

\* process_image: apply_image_adjustments.
ToneAdjust ==
    /\ stage = "Resized"
    /\ processed' = ApplyImageAdjustments(config, processed)
    /\ stage' = "Adjusted"
    /\ trace' = Append(trace, "ToneAdjust")
    /\ UNCHANGED <<config, input, cells, output, result>>

\* Whether every glyph index of the grayscale grid is inside the alphabet.
GrayInRange(cfg, grid) ==
    \A c \in DOMAIN grid : grid[c].index < Len(GrayChars(cfg))

\* Whether every char_index of the colored grid is inside its alphabet.
ColoredInRange(cfg, grid) ==
    \A c \in DOMAIN grid : ~ColoredOutOfRange(cfg, grid[c])

\* process_image, use_color = false: into_luma8 and image_to_ascii.  An
\* alphabet index out of range is a panic.
GrayscaleAssemble ==
    /\ stage = "Adjusted"
    /\ ~config.use_color
    /\ processed' = IntoLuma8(processed)
    /\ cells' = [c \in Coords(config.width, config.height) |->
                    GrayCell(config, processed', c[1], c[2])]
    /\ output' = IF GrayInRange(config, cells') THEN GrayOutput(config, cells')
                 ELSE output
    /\ stage' = IF GrayInRange(config, cells') THEN "Assembled" ELSE "Panicked"
    /\ result' = IF GrayInRange(config, cells') THEN result ELSE "Panic"
    /\ trace' = Append(trace, "GrayscaleAssemble")
    /\ UNCHANGED <<config, input>>

\* process_image, use_color = true: image_to_colored_ascii.
ColoredAssemble ==
    /\ stage = "Adjusted"
    /\ config.use_color
    /\ cells' = [c \in Coords(config.width, config.height) |->
                    ColoredCell(config, processed, c[1], c[2])]
    /\ output' = IF ColoredInRange(config, cells') THEN ColoredOutput(config, cells')
                 ELSE output
    /\ stage' = IF ColoredInRange(config, cells') THEN "Assembled" ELSE "Panicked"
    /\ result' = IF ColoredInRange(config, cells') THEN result ELSE "Panic"
    /\ trace' = Append(trace, "ColoredAssemble")
    /\ UNCHANGED <<config, input, processed>>

\* process_image: Ok(string) handed back to the caller.
Output ==
    /\ stage = "Assembled"
    /\ result' = "Ok"
    /\ stage' = "Done"
    /\ trace' = Append(trace, "Output")
    /\ UNCHANGED <<config, input, processed, cells, output>>

Next ==
    \/ Decode
    \/ Resize
    \/ ToneAdjust
    \/ GrayscaleAssemble
    \/ ColoredAssemble
    \/ Output

---------------------------------------------------------------------------
(* Bounded inputs                                                          *)

MaxWidth == 2

MaxHeight == 2

\* AsciiConfig::default(), with the f32 fields as decimal literals.
DefaultConfig ==
    [width |-> 100, height |-> 50, use_detailed_chars |-> FALSE,
     use_high_density |-> FALSE, use_color |-> FALSE,
     color_saturation |-> F32Lit[7, 10], invert |-> FALSE,
     contrast |-> F32One, brightness |-> F32One, scale |-> F32One]


MaxScale == 2

\* config.scale values: below 1, integral, and fractional above 1.
Scales == {F32Lit[1, 2], F32One, F32Lit[3, 2], F32FromInt[2]}

\* Integral config.scale values.
IntegralScales == {F32FromInt[k] : k \in 1 .. MaxScale}

\* config.color_saturation values, as the decimal literals num/den.
SatLiterals == {<<1, 1>>, <<7, 10>>, <<0, 1>>}

\* (contrast, brightness) values, as decimal literals.
ToneLiterals == {<<1, 1, 1, 1>>, <<1, 2, 1, 1>>, <<1, 1, 1, 2>>, <<2, 1, 3, 2>>}

Tiled(r, g, b, a, dx, dy, tile) ==
    [valid |-> TRUE, base |-> <<r, g, b, a>>, dx |-> dx, dy |-> dy, tile |-> tile]

Uniform(r, g, b, a) == Tiled(r, g, b, a, 0, 0, 1)

Gradient(r, g, b, a, dx, dy) == Tiled(r, g, b, a, dx, dy, 1)

\* Bytes the decoder rejects.
Malformed ==
    [valid |-> FALSE, base |-> <<0, 0, 0, 0>>, dx |-> 0, dy |-> 0, tile |-> 1]

Black == Uniform(0, 0, 0, 255)

White == Uniform(255, 255, 255, 255)

PureRed == Uniform(255, 0, 0, 255)

Flags(cfg, col, hd, det, inv) ==
    [cfg EXCEPT !.use_color = col, !.use_high_density = hd,
                !.use_detailed_chars = det, !.invert = inv]

Sized(cfg, w, h, sc) == [cfg EXCEPT !.width = w, !.height = h, !.scale = sc]

\* Every grid size, scale and flag on a few images.
Images == {Black, White, Gradient(10, 10, 10, 200, 70, 110),
           Gradient(200, 30, 90, 255, 50, 20)}

Configs ==
    { Flags(Sized(DefaultConfig, w, h, sc), col, hd, det, inv) :
        w \in 1 .. MaxWidth, h \in 1 .. MaxHeight, sc \in Scales,
        col \in BOOLEAN, hd \in BOOLEAN, det \in BOOLEAN, inv \in BOOLEAN }

Init == InitOver(Configs, Images \cup {Malformed})

Spec == Init /\ [][Next]_vars

\* Whole conversions: every grid size, scale and flag on a white image, whose
\* brightness reaches both ends of every alphabet (the last glyph, and the
\* first under invert), and on bytes that do not decode.
InitConversion == InitOver(Configs, {White, Malformed})

\* convert and process_image run their statements one after another to the
\* end: a conversion that can take a step takes it.
FairSpec == InitConversion /\ [][Next]_vars /\ WF_vars(Next)

\* Every 8-bit luminance through the grayscale path: two cells holding
\* neighbouring gray levels, as uniform blocks (tile = scale) and as blocks of
\* mixed levels (tile = 1).
GrayImages ==
    {Tiled(p, p, p, 255, 1, 0, t) : p \in 0 .. 255, t \in 1 .. MaxScale}
        \cup {Black, White}

GlyphConfigs ==
    { Flags(Sized(DefaultConfig, 2, 1, sc), FALSE, hd, det, inv) :
        sc \in IntegralScales, hd \in BOOLEAN, det \in BOOLEAN, inv \in BOOLEAN }
        \cup {Flags(Sized(DefaultConfig, 2, 1, F32One), TRUE, FALSE, FALSE, FALSE)}

\* The grayscale path ignores use_detailed_chars under use_high_density, and
\* a tile is 1 or the scale.
InitGlyph ==
    /\ InitOver(GlyphConfigs, GrayImages \cup {Malformed})
    /\ ~(config.use_high_density /\ config.use_detailed_chars)
    /\ input.tile \in {1, ScaleFactor(config)}
    /\ config.use_color => input \in {Black, Malformed}

SpecGlyph == InitGlyph /\ [][Next]_vars

\* Colors through the colored path, under every saturation and flag.
ColorImages ==
    {Gradient(10 * p, 255 - 10 * p, (30 * p) % 256, 255, 1, 0) : p \in 0 .. 25}
        \cup {PureRed, White, Black}

ColorConfigs ==
    { [Flags(Sized(DefaultConfig, 2, 1, sc), TRUE, hd, det, inv)
          EXCEPT !.color_saturation = F32Lit[sat[1], sat[2]]] :
        sc \in IntegralScales, hd \in BOOLEAN, det \in BOOLEAN, inv \in BOOLEAN,
        sat \in SatLiterals }
        \cup {Sized(DefaultConfig, 2, 1, F32One)}

InitColor ==
    /\ InitOver(ColorConfigs, ColorImages \cup {Malformed})
    /\ ~config.use_color => input \in {Black, Malformed}

SpecColor == InitColor /\ [][Next]_vars

\* Every 8-bit channel value through the tone adjustment.
ToneImages == {Uniform(p, 255 - p, (p + 128) % 256, (3 * p) % 256) : p \in 0 .. 255}

ToneConfigs ==
    { [Sized(DefaultConfig, 1, 1, F32One)
          EXCEPT !.contrast = F32Lit[t[1], t[2]], !.brightness = F32Lit[t[3], t[4]],
                 !.use_color = col] :
        t \in ToneLiterals, col \in BOOLEAN }

InitTone == InitOver(ToneConfigs, ToneImages \cup {Malformed})

SpecTone == InitTone /\ [][Next]_vars

---------------------------------------------------------------------------
(* Properties                                                              *)

Assembled == stage \in {"Assembled", "Done"}

GrayAssembled == Assembled /\ ~config.use_color

ColoredAssembled == Assembled /\ config.use_color

\* floor(v * k) in exact arithmetic, for an f32 v >= 0 and 0 < k < 128.
ExactFloor(v, k) ==
    IF v.m = 0 \/ v.e <= -31 THEN 0
    ELSE IF v.e >= 0 THEN v.m * k * 2^v.e
    ELSE (v.m * k) \div 2^(0 - v.e)

\* The 8-bit values of a block's pixels, channel k.
BlockValues(block, k) == {processed.px[block[i]][k] : i \in 1 .. Len(block)}

RECURSIVE SumChannel(_, _, _)
SumChannel(block, k, n) ==
    IF n = 0 THEN 0 ELSE SumChannel(block, k, n - 1) + processed.px[block[n]][k]

\* C1: with use_color = false the returned string is exactly `height` rows,
\* each of exactly `width` glyphs followed by one newline, the glyph of cell
\* (x, y) standing at place x of row y; and no configuration makes the
\* grayscale assembly fail.
GrayscaleGridShape ==
    ~config.use_color =>
        /\ stage # "Panicked"
        /\ Assembled =>
            /\ Len(output) = config.height * (config.width + 1)
            /\ \A y \in 0 .. config.height - 1 :
                /\ output[(y + 1) * (config.width + 1)] = Newline
                /\ \A x \in 0 .. config.width - 1 :
                      output[y * (config.width + 1) + x + 1]
                          = Glyph(GrayChars(config)[cells[<<x, y>>].index + 1])

GrayscaleGridReached ==
    /\ stage = "Done"
    /\ ~config.use_color
    /\ config.width = 2
    /\ config.height = 2
    /\ config.scale = F32Lit[3, 2]
    /\ output[1] # output[2]
    /\ output[1] # output[4]

\* C2: in the grayscale path the glyph index of every cell is
\* floor(v * (n - 1)) for the cell's average brightness v and the alphabet
\* length n, lies in [0, n - 1], never decreases when v grows, is 0 for
\* v = 0.0 and n - 1 for v = 1.0; an all-black block yields the first glyph
\* and an all-white block the last.
GlyphIndexIsFloor ==
    (stage \in {"Assembled", "Done", "Panicked"} /\ ~config.use_color) =>
        LET n == Len(GrayChars(config)) IN
        \A c \in DOMAIN cells :
            /\ ~cells[c].avg.neg
            /\ ~F32Lt[F32One, cells[c].avg]
            /\ cells[c].index = ExactFloor(cells[c].avg, n - 1)
            /\ cells[c].index \in 0 .. n - 1
            /\ cells[c].avg = F32Zero => cells[c].index = 0
            /\ cells[c].avg = F32One => cells[c].index = n - 1
            /\ \A d \in DOMAIN cells :
                  F32Lt[cells[c].avg, cells[d].avg] => cells[c].index <= cells[d].index
            /\ (~config.invert /\ BlockValues(cells[c].block, 1) = {0})
                  => cells[c].index = 0
            /\ (~config.invert /\ BlockValues(cells[c].block, 1) = {255})
                  => cells[c].index = n - 1

GlyphIndexStepReached ==
    /\ stage = "Done"
    /\ ~config.use_color
    /\ config.use_detailed_chars
    /\ cells[<<0, 0>>].index > 0
    /\ cells[<<1, 0>>].index = cells[<<0, 0>>].index + 1
    /\ cells[<<1, 0>>].count = 4

\* The index the grayscale path selects for cell c with invert switched off.
PlainIndex(c) ==
    GrayCell([config EXCEPT !.invert = FALSE], processed, c[1], c[2]).index

UniformBlock(block) == Cardinality(BlockValues(block, 1)) = 1

ColoredHighDensityFullRange ==
    (ColoredAssembled /\ config.use_high_density /\ ~config.invert) =>
        \A c \in DOMAIN cells :
            cells[c].count > 0 =>
                /\ cells[c].index < Len(HIGH_DENSITY_CHARS)
                /\ (\A k \in 1 .. 3 : BlockValues(cells[c].block, k) = {0})
                      => ColoredCharacter(config, cells[c].index)
                            = HIGH_DENSITY_CHARS[1]
                /\ (\A k \in 1 .. 3 : BlockValues(cells[c].block, k) = {255})
                      => ColoredCharacter(config, cells[c].index)
                            = HIGH_DENSITY_CHARS[Len(HIGH_DENSITY_CHARS)]

\* The decimal literal config.color_saturation was written as.
SatLiteral == CHOOSE l \in SatLiterals : F32Lit[l[1], l[2]] = config.color_saturation

\* color is (mean * sat + (1 - sat) * 0.5) * 255 cut to an integer, for the
\* exact mean sum / (255 * n) of a block and sat = a / b: color <= X <= color + 1
\* (X itself or X - 1 where X is an integer, floor(X) elsewhere).
IsBlendOf(color, sum, n, a, b) ==
    /\ color * 2 * n * b <= 2 * a * sum + 255 * n * (b - a)
    /\ 2 * a * sum + 255 * n * (b - a) <= (color + 1) * 2 * n * b

\* The span of cell (x, y) when every cell of the grid emits one.
SpanAt(x, y) == output[1 + y * (config.width + 1) + x + 1]

\* C5: in the colored path the color channels of every emitted span are
\* (avgChannel * sat + (1 - sat) * 0.5) scaled to [0, 255] as 8-bit values, for
\* the block mean avgChannel of the channel, whatever invert and the alphabet
\* flags are; a uniform pure-red image with color_saturation = 1.0 yields
\* rgb(255, 0, 0) in every cell.
SpanColorIsSaturationBlend ==
    (ColoredAssembled /\ \A c \in DOMAIN cells : cells[c].count > 0) =>
        \A c \in DOMAIN cells :
            LET span == SpanAt(c[1], c[2])
                n    == cells[c].count
                sum(k) == SumChannel(cells[c].block, k, n)
            IN /\ span.kind = "span"
               /\ span.r \in 0 .. 255 /\ span.g \in 0 .. 255 /\ span.b \in 0 .. 255
               /\ IsBlendOf(span.r, sum(1), n, SatLiteral[1], SatLiteral[2])
               /\ IsBlendOf(span.g, sum(2), n, SatLiteral[1], SatLiteral[2])
               /\ IsBlendOf(span.b, sum(3), n, SatLiteral[1], SatLiteral[2])
               /\ (input = PureRed /\ SatLiteral = <<1, 1>>)
                     => (span.r = 255 /\ span.g = 0 /\ span.b = 0)

BlendedSpanReached ==
    /\ stage = "Done"
    /\ config.use_color
    /\ config.invert
    /\ config.use_high_density
    /\ SatLiteral = <<7, 10>>
    /\ cells[<<1, 0>>].count = 4
    /\ SpanAt(1, 0).kind = "span"
    /\ SpanAt(1, 0).r * 4 > SumChannel(cells[<<1, 0>>].block, 1, 4)
    /\ SpanAt(1, 0).g * 4 < SumChannel(cells[<<1, 0>>].block, 2, 4)
    /\ Cardinality(BlockValues(cells[<<1, 0>>].block, 1)) > 1

\* The pure-red case of C5 is reached too.
PureRedSpanReached ==
    /\ stage = "Done"
    /\ input = PureRed
    /\ SatLiteral = <<1, 1>>
    /\ SpanAt(1, 0) = Span(255, 0, 0, ColoredCharacter(config, cells[<<1, 0>>].index))

\* The stages of a successful conversion, in order.
Pipeline ==
    <<"Decode", "Resize", "ToneAdjust",
      IF config.use_color THEN "ColoredAssemble" ELSE "GrayscaleAssemble", "Output">>

\* The safety part of the pipeline: the stages run are a prefix of Decode,
\* Resize, ToneAdjust, the one assembly use_color selects, Output; the only
\* results are Ok and the decoder's Err; an Err leaves nothing but Decode run,
\* no buffer and no output; Ok is the result exactly of a whole pipeline.
PipelineOrder ==
    /\ Len(trace) <= Len(Pipeline)
    /\ trace = SubSeq(Pipeline, 1, Len(trace))
    /\ result \in {"None", "Ok", "Err"}
    /\ stage # "Panicked"
    /\ result = "Err" =>
          /\ ~input.valid
          /\ trace = <<"Decode">>
          /\ output = << >>
          /\ processed = EmptyBuffer
          /\ cells = << >>
    /\ (~input.valid /\ trace # << >>) => result = "Err"
    /\ result = "Ok" <=> trace = Pipeline
    /\ output # << >> => Len(trace) >= 4

\* C6: every conversion runs Decode, Resize, ToneAdjust, exactly one of
\* ColoredAssemble and GrayscaleAssemble as use_color says, then Output, each
\* at most once and in this order; only Decode ends in an error, after which
\* no later stage runs and no output exists; and a conversion whose input
\* decodes always ends with an Ok result.
ForwardPipeline ==
    /\ []PipelineOrder
    /\ [](input.valid => <>(result = "Ok" /\ trace = Pipeline))

ConversionEndedOk ==
    /\ result = "Ok"
    /\ config.use_color
    /\ trace = <<"Decode", "Resize", "ToneAdjust", "ColoredAssemble", "Output">>
    /\ Len(output) > 2

\* C7: with contrast = 1.0 and brightness = 1.0 the tone adjustment leaves
\* every R, G, B channel value as it was, and it leaves alpha as it was for
\* every contrast and brightness.
ToneIdentityAtUnity ==
    stage = "Adjusted" =>
        \A c \in DOMAIN processed.px :
            /\ processed.px[c][4] = SourcePixel(input, c[1], c[2])[4]
            /\ (config.contrast = F32One /\ config.brightness = F32One)
                  => processed.px[c] = SourcePixel(input, c[1], c[2])

\* A grayscale buffer of mid-gray pixels, under the high-density alphabet.
MidGray ==
    /\ GrayAssembled
    /\ config.use_high_density
    /\ ~config.invert
    /\ DOMAIN processed.px # {}
    /\ \A c \in DOMAIN processed.px : processed.px[c][1] \in {127, 128}

\* C8 as stated: the high-density alphabet has 21 entries and a uniform
\* mid-gray image selects index 10 for every cell.
MidGrayPicksMiddleOf21 ==
    MidGray =>
        /\ Len(HIGH_DENSITY_CHARS) = 21
        /\ \A c \in DOMAIN cells : cells[c].index = 10

\* C8 as amended: the high-density alphabet has 22 entries and a uniform
\* mid-gray image selects index 10, the lower of its two middle entries, for
\* every cell.
MidGrayPicksIndex10Of22 ==
    MidGray =>
        /\ Len(HIGH_DENSITY_CHARS) = 22
        /\ \A c \in DOMAIN cells :
              /\ cells[c].index = 10
              /\ output[c[1] + 1] = Glyph(HIGH_DENSITY_CHARS[11])

MidGrayReached ==
    /\ MidGray
    /\ stage = "Done"
    /\ processed.w = 4
    /\ processed.px[<<0, 0>>][1] = 127
    /\ processed.px[<<3, 1>>][1] = 128

\* C9: a cell whose block covers no pixel is still emitted: the grayscale
\* path emits the glyph at index 0 for it, and the colored path a span, so
\* every colored row holds exactly `width` spans.
ZeroCoverageCellsEmitted ==
    Assembled =>
        IF config.use_color
        THEN /\ Len(output) = 2 + config.height * (config.width + 1)
             /\ \A c \in DOMAIN cells : SpanAt(c[1], c[2]).kind = "span"
        ELSE \A c \in DOMAIN cells :
                cells[c].count = 0 =>
                    output[c[2] * (config.width + 1) + c[1] + 1]
                        = Glyph(GrayChars(config)[1])

\* C10: for scale >= 1.0 every pixel of the resized buffer lies in the block
\* of exactly one output cell.
BlocksPartitionBuffer ==
    (Assembled /\ ~F32Lt[config.scale, F32One]) =>
        \A q \in Coords(processed.w, processed.h) :
            Cardinality({c \in DOMAIN cells :
                            \E i \in 1 .. Len(cells[c].block) : cells[c].block[i] = q})
                = 1

\* The decimal literals config.contrast and config.brightness were written as.
ToneLiteral ==
    CHOOSE t \in ToneLiterals :
        /\ F32Lit[t[1], t[2]] = config.contrast
        /\ F32Lit[t[3], t[4]] = config.brightness

\* n / d held to [0, 1], as a numerator over d (d > 0).
ClampedNumerator(n, d) == IF n < 0 THEN 0 ELSE IF n > d THEN d ELSE n

\* round(v2 * 255) in exact arithmetic, for contrast cn / cd and brightness
\* bn / bd: v1 = clamp01((ch / 255 - 0.5) * c + 0.5) is
\* ClampedNumerator((2 ch - 255) cn + 255 cd, 510 cd) over 510 cd, and
\* v2 = clamp01(v1 * b) is a numerator over 510 cd bd.
RoundedTone(ch, cn, cd, bn, bd) ==
    (2 * 255 * ClampedNumerator(
                   ClampedNumerator((2 * ch - 255) * cn + 255 * cd, 510 * cd) * bn,
                   510 * cd * bd)
        + 510 * cd * bd) \div (2 * 510 * cd * bd)

\* C11: for every 8-bit channel value ch and every contrast c and brightness
\* b the adjusted channel is round(v2 * 255), where
\* v1 = clamp01((ch / 255 - 0.5) * c + 0.5) and v2 = clamp01(v1 * b): contrast
\* applied and held to [0, 1] first, brightness second, the result rounded to
\* nearest and inside [0, 255] (ch = 255, c = 1, b = 0.5 gives 128).
ToneIsRoundedFormula ==
    stage = "Adjusted" =>
        \A c \in DOMAIN processed.px : \A k \in 1 .. 3 :
            /\ processed.px[c][k] \in 0 .. 255
            /\ processed.px[c][k]
                  = RoundedTone(SourcePixel(input, c[1], c[2])[k], ToneLiteral[1],
                                ToneLiteral[2], ToneLiteral[3], ToneLiteral[4])

=============================================================================
